---- MODULE Spec2Model ----
(***************************************************************************)
(* A model of bot-tele-site.py: the date-partitioned Daily Record Store,   *)
(* the month/year manifests, the Global Paginated Index and the per-run    *)
(* ingestion of the news and video feeds.                                  *)
(*                                                                         *)
(* Text is a sequence of tokens: one token per character for the text the  *)
(* program inspects character by character (titles, image URLs, digits,    *)
(* "-", "/", "|", "#", blanks), and one token for each fixed literal of    *)
(* the source ("data", ".json", "index_", ...).  The filesystem is a       *)
(* record of the files that exist (path -> content) and the directories    *)
(* that exist.  File and directory operations are assumed to succeed; the  *)
(* external services (messaging, image pipeline, upload) may fail.         *)
(***************************************************************************)
EXTENDS Integers, Sequences, FiniteSets, TLC

(***************************************************************************)
(* Bounds of the model.                                                    *)
(***************************************************************************)
MaxClock == 2
MaxBatch == 3
MaxIndexed == 1003
MaxDay == 4
MaxSmallIndex == 4

(***************************************************************************)
(* Text.                                                                   *)
(***************************************************************************)
\* Python's None, where the program keeps None apart from a string.
None == <<"None">>

SPACE == " "
NEWLINE == "\n"
Whitespace == {SPACE, NEWLINE}

\* x or d
OrElse(x, d) == IF x = None \/ x = <<>> THEN d ELSE x

RECURSIVE lstrip(_)
lstrip(s) ==
    IF s # <<>> /\ Head(s) \in Whitespace THEN lstrip(Tail(s)) ELSE s

RECURSIVE rstrip(_)
rstrip(s) ==
    IF s # <<>> /\ s[Len(s)] \in Whitespace
    THEN rstrip(SubSeq(s, 1, Len(s) - 1))
    ELSE s

\* str.strip()
strip(s) == rstrip(lstrip(s))

Digit(k) == <<"0", "1", "2", "3", "4", "5", "6", "7", "8", "9">>[k + 1]

\* f"{n}" for n >= 0
RECURSIVE Str(_)
Str(n) == IF n < 10 THEN <<Digit(n)>> ELSE Str(n \div 10) \o <<Digit(n % 10)>>

\* f"{n:02d}" for n >= 0
Fmt02(n) == IF n < 10 THEN <<"0">> \o Str(n) ELSE Str(n)

\* ord(c) of the first character of a token, for the names in a month
\* directory: "-", ".", digits, "m"
Ord(c) ==
    IF c = "-" THEN 45
    ELSE IF c = ".json" THEN 46
    ELSE IF c = "month_manifest" THEN 109
    ELSE 48 + (CHOOSE k \in 0..9 : Digit(k) = c)

\* a < b for such strings
RECURSIVE StrLess(_, _)
StrLess(a, b) ==
    IF b = <<>> THEN FALSE
    ELSE IF a = <<>> THEN TRUE
    ELSE IF Head(a) = Head(b) THEN StrLess(Tail(a), Tail(b))
    ELSE Ord(Head(a)) < Ord(Head(b))

IsPrefix(p, s) == Len(p) <= Len(s) /\ SubSeq(s, 1, Len(p)) = p

IsSuffix(p, s) == Len(p) <= Len(s) /\ SubSeq(s, Len(s) - Len(p) + 1, Len(s)) = p

(***************************************************************************)
(* Paths and the filesystem.                                               *)
(***************************************************************************)
SLASH == "/"
DATA_BASE == <<"data">>
GLOBAL_INDEX == <<"global_index">>
JSON_SUFFIX == <<".json">>
CRUNCHYROLL_LAST_FP_FILE == <<"last_crunchyroll_fp.txt">>
YOUTUBE_LAST_ID_FILE == <<"last_youtube_id.txt">>
GLOBAL_PAGE_SIZE == 500

\* dir / name
Join(dir, name) == dir \o <<SLASH>> \o name

HasDir(p) == \E k \in 1..Len(p) : p[k] = SLASH

\* Path.parent (the empty path for a bare name)
Parent(p) ==
    IF HasDir(p)
    THEN LET i == CHOOSE k \in 1..Len(p) :
                      p[k] = SLASH /\ \A j \in (k + 1)..Len(p) : p[j] # SLASH
         IN  SubSeq(p, 1, i - 1)
    ELSE <<>>

\* Path.name
Name(p) == IF HasDir(p) THEN SubSeq(p, Len(Parent(p)) + 2, Len(p)) ELSE p

\* Path.stem of a name
Stem(name) ==
    IF IsSuffix(JSON_SUFFIX, name) THEN SubSeq(name, 1, Len(name) - Len(JSON_SUFFIX))
    ELSE name

\* s.split("-")[0]
SplitFirst(s) ==
    IF \E k \in 1..Len(s) : s[k] = "-"
    THEN LET i == CHOOSE k \in 1..Len(s) : s[k] = "-" /\ \A j \in 1..(k - 1) : s[j] # "-"
         IN  SubSeq(s, 1, i - 1)
    ELSE s

\* A file's content: a JSON list, a JSON object, plain text, or bytes that do
\* not parse as JSON.
JsonList(xs) == [kind |-> "list", data |-> xs]
JsonDict(d) == [kind |-> "dict", data |-> d]
Text(s) == [kind |-> "text", data |-> s]
Unparseable == [kind |-> "corrupt", data |-> <<>>]

EmptyFs == [files |-> <<>>, dirs |-> {}]

Exists(f, path) == path \in DOMAIN f.files

WriteFile(f, path, content) ==
    [f EXCEPT !.files = (path :> content) @@ f.files]

\* p.mkdir(parents=True, exist_ok=True)
ensure_dir(f, p) ==
    [f EXCEPT !.dirs = f.dirs \cup {p}
                  \cup {SubSeq(p, 1, i - 1) : i \in {k \in 1..Len(p) : p[k] = SLASH}}]

\* The clock: the local date of the i-th day the model covers.
DateOf(i) ==
    IF i = 1 THEN [year |-> 2024, month |-> 12, day |-> 31]
    ELSE [year |-> 2025, month |-> 1, day |-> i - 1]

month_dir(dt) == Join(Join(DATA_BASE, Str(dt.year)), Fmt02(dt.month))

daily_file(dt) ==
    Join(month_dir(dt), Fmt02(dt.day) \o <<"-">> \o Fmt02(dt.month) \o JSON_SUFFIX)

\* daily_path: creates the month directory, returns the Daily File's path
daily_path(f, dt) == [fs |-> ensure_dir(f, month_dir(dt)), path |-> daily_file(dt)]

load_json_list(f, path) ==
    IF ~Exists(f, path) THEN <<>>
    ELSE IF f.files[path].kind = "list" THEN f.files[path].data
    ELSE <<>>

save_json_list(f, path, data) ==
    WriteFile(ensure_dir(f, Parent(path)), path, JsonList(data))

\* read_text_file: None for an absent or blank file
read_text_file(f, path) ==
    IF ~Exists(f, path) THEN None
    ELSE IF f.files[path].kind # "text" THEN None
    ELSE LET s == strip(f.files[path].data)
         IN  IF s = <<>> THEN None ELSE s

write_text_file(f, path, value) ==
    WriteFile(f, path, Text(strip(OrElse(value, <<>>)) \o <<NEWLINE>>))

(***************************************************************************)
(* Feed entries and Daily Records.  An entry carries what the extraction   *)
(* helpers read from it: its title (None when the attribute is missing),   *)
(* the image URL extract_image finds (None when there is none) and the     *)
(* plain text extract_full_text yields.                                    *)
(***************************************************************************)
Entry(title, image) == [title |-> title, image |-> image, text |-> <<"t">>]

extract_image(entry) == entry.image

extract_full_text(entry) == entry.text

extract_categories(entry) == <<>>

build_daily_record(entry) ==
    [title |-> OrElse(entry.title, <<>>),
     description_full |-> extract_full_text(entry),
     image |-> extract_image(entry),
     categories |-> extract_categories(entry)]

\* Python's None where a record is expected
NoRecord ==
    [title |-> None, description_full |-> None, image |-> None, categories |-> None]

get_entry_identity(entry) ==
    strip(OrElse(entry.title, <<>>)) \o <<"|">> \o strip(OrElse(extract_image(entry), <<>>))

\* The fingerprint save_single_news computes for a stored record
RecordFp_unstripped(x) ==
    OrElse(x.title, <<>>) \o <<"|">> \o OrElse(x.image, <<>>)

RecordFp(x) ==
    strip(OrElse(x.title, <<>>)) \o <<"|">> \o strip(OrElse(x.image, <<>>))

(***************************************************************************)
(* Daily Record Store.                                                     *)
(***************************************************************************)
\* save_json_list(path, existing) after existing.append(rec)
save_single_news_lost(f, entry, today) ==
    LET dp == daily_path(f, today)
        existing == load_json_list(dp.fs, dp.path)
        fp == get_entry_identity(entry)
        existing_fp == {RecordFp(existing[i]) : i \in 1..Len(existing)}
        rec == build_daily_record(entry)
    IN  IF fp \in existing_fp
        THEN [fs |-> dp.fs, rec |-> NoRecord, path |-> dp.path]
        ELSE [fs |-> dp.fs, rec |-> rec, path |-> dp.path]

save_single_news(f, entry, today) ==
    LET dp == daily_path(f, today)
        existing == load_json_list(dp.fs, dp.path)
        fp == get_entry_identity(entry)
        existing_fp == {RecordFp(existing[i]) : i \in 1..Len(existing)}
        rec == build_daily_record(entry)
    IN  IF fp \in existing_fp
        THEN [fs |-> dp.fs, rec |-> NoRecord, path |-> dp.path]
        ELSE [fs |-> save_json_list(dp.fs, dp.path, Append(existing, rec)),
              rec |-> rec, path |-> dp.path]

(***************************************************************************)
(* Manifests.                                                              *)
(***************************************************************************)
MONTH_MANIFEST == <<"month_manifest", ".json">>
YEAR_MANIFEST == <<"year_manifest", ".json">>

\* month_dir.glob("*.json")
glob_json(f, dir) ==
    {p \in DOMAIN f.files : Parent(p) = dir /\ IsSuffix(JSON_SUFFIX, Name(p))}

\* year_dir.glob("[0-1][0-9]")
glob_months(f, dir) ==
    {p \in f.dirs :
        /\ HasDir(p) /\ Parent(p) = dir
        /\ Len(Name(p)) = 2
        /\ Name(p)[1] \in {"0", "1"}
        /\ Name(p)[2] \in {Digit(k) : k \in 0..9}}

\* The greatest string of a non-empty set
MaxStr(S) == CHOOSE x \in S : \A y \in S : ~StrLess(x, y)

MinStr(S) == CHOOSE x \in S : \A y \in S : ~StrLess(y, x)

\* sorted(keys, reverse=True)
RECURSIVE sorted_asc(_)
sorted_asc(S) ==
    IF S = {} THEN <<>> ELSE <<MinStr(S)>> \o sorted_asc(S \ {MinStr(S)})

RECURSIVE sorted_desc(_)
sorted_desc(S) ==
    IF S = {} THEN <<>> ELSE <<MaxStr(S)>> \o sorted_desc(S \ {MaxStr(S)})

\* p.stem.split("-")[0]
day_key(p) == SplitFirst(Stem(Name(p)))

\* The files a month manifest lists: every *.json of the directory but the
\* manifest itself
listed_files_all(f, dir) == glob_json(f, dir)

listed_files(f, dir) == {p \in glob_json(f, dir) : Name(p) # MONTH_MANIFEST}

update_month_manifest(f, dt) ==
    LET dir == month_dir(dt)
        f1 == ensure_dir(f, dir)
        manifest_path == Join(dir, MONTH_MANIFEST)
        files == listed_files(f1, dir)
        keys == {day_key(p) : p \in files}
        \* a later path of the sorted listing overwrites an earlier one's key
        days == [k \in keys |->
                    CHOOSE p \in files :
                        /\ day_key(p) = k
                        /\ \A q \in files : day_key(q) = k => ~StrLess(Name(p), Name(q))]
        order == sorted_desc(keys)
    IN  WriteFile(f1, manifest_path,
                  JsonDict([year |-> Str(dt.year), month |-> Fmt02(dt.month),
                            days |-> [i \in 1..Len(order) |->
                                         [key |-> order[i], path |-> days[order[i]]]]]))

update_year_manifest(f, dt) ==
    LET dir == Join(DATA_BASE, Str(dt.year))
        f1 == ensure_dir(f, dir)
        manifest_path == Join(dir, YEAR_MANIFEST)
        order == sorted_desc({Name(p) : p \in glob_months(f1, dir)})
    IN  WriteFile(f1, manifest_path,
                  JsonDict([year |-> Str(dt.year),
                            months |-> [i \in 1..Len(order) |->
                                [key |-> order[i],
                                 path |-> Join(Join(dir, order[i]), MONTH_MANIFEST)]]]))

(***************************************************************************)
(* Global Paginated Index.                                                 *)
(***************************************************************************)
PAGINATION_FILE == Join(GLOBAL_INDEX, <<"pagination", ".json">>)
STATS_FILE == Join(GLOBAL_INDEX, <<"stats", ".json">>)

\* f"index_{n}.json"
PageName(n) == <<"index_">> \o Str(n) \o JSON_SUFFIX

gi_paths(f) ==
    [fs |-> ensure_dir(f, GLOBAL_INDEX), pag_path |-> PAGINATION_FILE,
     stats_path |-> STATS_FILE]

EmptyPagination == [total_articles |-> 0, files |-> <<>>]

gi_load_pagination(f) ==
    LET g == gi_paths(f)
    IN  [fs |-> g.fs,
         pag |-> IF ~Exists(g.fs, g.pag_path) THEN EmptyPagination
                 ELSE IF g.fs.files[g.pag_path].kind = "dict"
                      THEN g.fs.files[g.pag_path].data
                 ELSE EmptyPagination]

gi_save_pagination(f, pag) ==
    LET g == gi_paths(f) IN WriteFile(g.fs, g.pag_path, JsonDict(pag))

\* "total_articles": total_articles, "added_today": added_today
gi_save_stats_swapped(f, total_articles, added_today, now) ==
    LET g == gi_paths(f)
    IN  WriteFile(g.fs, g.stats_path,
                  JsonDict([total_articles |-> added_today,
                            added_today |-> total_articles,
                            last_update |-> now]))

gi_save_stats(f, total_articles, added_today, now) ==
    LET g == gi_paths(f)
    IN  WriteFile(g.fs, g.stats_path,
                  JsonDict([total_articles |-> total_articles,
                            added_today |-> added_today,
                            last_update |-> now]))

convert_full_to_slim(records, source_path) ==
    [i \in 1..Len(records) |->
        [title |-> records[i].title,
         image |-> records[i].image,
         categories |-> OrElse(records[i].categories, <<>>),
         path |-> IF source_path # None /\ source_path # <<>>
                  THEN source_path \o <<"#">> \o Str(i - 1)
                  ELSE None]]

\* len(items) >= GLOBAL_PAGE_SIZE
page_is_full_gt(items) == Len(items) > GLOBAL_PAGE_SIZE

page_is_full(items) == Len(items) >= GLOBAL_PAGE_SIZE

\* next_idx = len(pag["files"]) + 1; f"index_{next_idx}.json"
next_page_name_same(files) == PageName(Len(files))

next_page_name_skip(files) == PageName(Len(files) + 2)

next_page_name(files) == PageName(Len(files) + 1)

\* items.extend(new_records)
extend_items_capped(items, new_records) ==
    LET all == items \o new_records
    IN  SubSeq(all, 1, IF Len(all) > GLOBAL_PAGE_SIZE THEN GLOBAL_PAGE_SIZE ELSE Len(all))

extend_items(items, new_records) == items \o new_records

gi_append_records(f, new_records, now) ==
    IF new_records = <<>> THEN f
    ELSE
    LET l == gi_load_pagination(f)
        \* no page yet: create page 1 and register it
        first == Join(GLOBAL_INDEX, PageName(1))
        f1 == IF l.pag.files = <<>> THEN save_json_list(l.fs, first, <<>>) ELSE l.fs
        files1 == IF l.pag.files = <<>> THEN <<PageName(1)>> ELSE l.pag.files
        last_filename == files1[Len(files1)]
        loaded == load_json_list(f1, Join(GLOBAL_INDEX, last_filename))
        \* rotation, decided on the size before the batch is added
        rotate == page_is_full(loaded)
        current_filename == IF rotate THEN next_page_name(files1) ELSE last_filename
        current_file == Join(GLOBAL_INDEX, current_filename)
        f2 == IF rotate THEN save_json_list(f1, current_file, <<>>) ELSE f1
        files2 == IF rotate THEN Append(files1, current_filename) ELSE files1
        items == extend_items(IF rotate THEN <<>> ELSE loaded, new_records)
        f3 == save_json_list(f2, current_file, items)
        total == l.pag.total_articles + Len(new_records)
        pag == [total_articles |-> total, files |-> files2]
    IN  gi_save_stats(gi_save_pagination(f3, pag), total, Len(new_records), now)

(***************************************************************************)
(* Senders.  The outcome of each external call is an input: the image      *)
(* pipeline returns bytes, returns None (a failed download, caught in      *)
(* fetch_image) or raises (resize, overlay or encoding, not caught); a     *)
(* send or an upload succeeds or fails.                                    *)
(***************************************************************************)
SendOutcomes ==
    [img : {"bytes", "none", "raise"}, photo : {"ok", "fail"}, text : {"ok", "fail"}]

UploadOutcomes == [img : {"bytes", "none", "raise"}, upload : BOOLEAN]

Truthy(x) == x # None /\ x # <<>>

\* send_crunchyroll_one: "photo" or "text" for what was delivered, "raise" when
\* an exception leaves the function
send_crunchyroll_one(entry, o) ==
    LET img_url == build_daily_record(entry).image
    IN  IF Truthy(img_url) /\ o.img = "raise" THEN "raise"
        ELSE IF Truthy(img_url) /\ o.photo = "ok" THEN "photo"
        ELSE IF o.text = "ok" THEN "text"
        ELSE "raise"

\* process_image_with_logo and upload_article_to_site in run(): "ok", "failed"
\* (logged, the run goes on) or "raise"
upload_step(record, o) ==
    IF Truthy(record.image) /\ o.img = "raise" THEN "raise"
    ELSE IF o.upload THEN "ok"
    ELSE "failed"

\* if last_fp and fp == last_fp
already_processed_never(last_fp, fp) == FALSE

already_processed(last_fp, fp) == Truthy(last_fp) /\ fp = last_fp

\* The ids the video feed can deliver: a native id, and the empty id of an
\* entry that has neither yt_videoid nor id
Vids == {<<"v">>, <<>>}

(***************************************************************************)
(* State.                                                                  *)
(***************************************************************************)
VARIABLES
    fs,        \* the files and directories on disk
    clock,     \* the index of the current local date
    pc,        \* where the run is
    latest,    \* run(): the latest news entry
    rec,       \* run(): the record save_single_news returned
    day_path,  \* run(): the path save_single_news returned
    obs,       \* what the current (or last) run did, for the properties
    call,      \* the last direct call of save_single_news
    gi,        \* the direct calls of gi_append_records: count, kinds, last batch
    fresh,     \* the month directories whose manifest was rebuilt since the
               \* directory last changed
    pending    \* the item of a run that was killed between the append of its
               \* Daily Record and the write of the news marker

vars == <<fs, clock, pc, latest, rec, day_path, obs, call, gi, fresh, pending>>

runVars == <<pc, latest, rec, day_path, obs>>

now_local == DateOf(clock)

\* The entries the feeds can deliver: two that differ only by surrounding
\* blanks and by None against the empty image, and two with different
\* (title, image) pairs that contain the separator.
Entries ==
    {Entry(<<"a">>, None),
     Entry(<<SPACE, "a">>, <<>>),
     Entry(None, <<"|", "a", SPACE>>),
     Entry(<<"|">>, <<"a">>)}

NoEntry == Entry(None, None)

\* The entries the news feed delivers to run(): one without an image, one
\* with an image
FeedEntries == {Entry(<<"a">>, None), Entry(<<"|">>, <<"a">>)}

\* What feedparser.parse hands to run() and to send_youtube_latest_if_new: the
\* latest entry (NoEntry, None: a feed without entries), or an exception
NewsFeed ==
    {[raised |-> TRUE, entry |-> NoEntry]}
        \cup {[raised |-> FALSE, entry |-> e] : e \in FeedEntries \cup {NoEntry}}

VideoFeed ==
    {[raised |-> TRUE, vid |-> None]}
        \cup {[raised |-> FALSE, vid |-> v] : v \in Vids \cup {None}}

\* What a run did.  news: the path the news source took ("none" before the
\* news step, "raised", "empty", "skip", "dup", "new"); marker: the news marker as read
\* at the news step; sends, uploads: the news notifications delivered and the
\* uploads accepted; done: the later steps carried out; video, vid: what the
\* video source did, and with which id; ended: how the run ended; tries: how
\* many runs in a row, this one included, have found the item `latest` to be
\* the latest of the news feed (counted up to 3, kept from run to run).
NoObs ==
    [news |-> "none", marker |-> None, sends |-> 0, uploads |-> 0, done |-> {},
     video |-> "none", vid |-> None, ended |-> "never", tries |-> 0]

\* nth: 1 for a call, 2 for a call that repeats the call before it (same
\* entry, same day); before: the Daily File's records when the call began.
NoCall ==
    [entry |-> NoEntry, day |-> 0, nth |-> 0, rec |-> NoRecord, path |-> None,
     before |-> <<>>]

\* resent: the notifications delivered for the item since the run was killed
NoPending == [entry |-> NoEntry, path |-> None, resent |-> 0]

NoGi == [n |-> 0, single |-> TRUE, batch |-> <<>>]

Init ==
    /\ fs = EmptyFs
    /\ clock = 1
    /\ pc = "idle"
    /\ latest = NoEntry
    /\ rec = NoRecord
    /\ day_path = None
    /\ obs = NoObs
    /\ call = NoCall
    /\ gi = NoGi
    /\ fresh = {}
    /\ pending = NoPending

\* The local date moves on.
Tick ==
    /\ clock < MaxClock
    /\ clock' = clock + 1
    /\ UNCHANGED <<fs, runVars, call, gi, fresh, pending>>

(***************************************************************************)
(* The Daily Record Store on its own: save_single_news called with any     *)
(* entry, on any day.                                                      *)
(***************************************************************************)
SaveCall(entry) ==
    LET r == save_single_news(fs, entry, now_local)
    IN  /\ fs' = r.fs
        /\ call' = [entry |-> entry, day |-> clock,
                    nth |-> IF call.nth > 0 /\ call.entry = entry /\ call.day = clock
                            THEN 2 ELSE 1,
                    rec |-> r.rec, path |-> r.path,
                    before |-> load_json_list(fs, r.path)]
        /\ UNCHANGED <<clock, runVars, gi, fresh, pending>>

NextDaily == Tick \/ \E entry \in Entries : SaveCall(entry)

SpecDaily == Init /\ [][NextDaily]_vars

\* The (title, image) pair of an entry or a record, trimmed, an absent value
\* counting as the empty string.
TrimPair(x) == <<strip(OrElse(x.title, <<>>)), strip(OrElse(x.image, <<>>))>>

\* The Daily Files on disk
DailyFiles ==
    {p \in DOMAIN fs.files :
        /\ IsPrefix(DATA_BASE \o <<SLASH>>, p)
        /\ fs.files[p].kind = "list"}

\* How many records of a list have the trimmed pair of x
CountPair(xs, x) == Cardinality({i \in 1..Len(xs) : TrimPair(xs[i]) = TrimPair(x)})

\* The records of the Daily File of the last call, now
CallAfter == load_json_list(fs, call.path)

\* C1: two successive calls of save_single_news on one day with the same
\* (title, image) pair leave exactly one record with that pair in the Daily
\* File; the second call returns (None, path) and leaves the file unchanged.
C1_Idempotence ==
    call.nth = 2
    => /\ call.rec = NoRecord
       /\ CallAfter = call.before
       /\ CountPair(CallAfter, call.entry) = 1

\* C2: no Daily File holds two records with the same trimmed (title, image)
\* pair, and a candidate whose trimmed pair is that of a stored record is
\* dropped: the call returns None and the file keeps its contents.
C2_Unique ==
    /\ \A p \in DailyFiles :
         LET xs == fs.files[p].data
         IN  \A i, j \in 1..Len(xs) : TrimPair(xs[i]) = TrimPair(xs[j]) => i = j
    /\ (call.nth > 0 /\ CountPair(call.before, call.entry) > 0)
         => /\ call.rec = NoRecord
            /\ CallAfter = call.before

\* A candidate that differs from a stored record only by surrounding blanks
\* and by None against the empty image was dropped from a file of two records.
C2_Witness ==
    /\ call.nth = 1
    /\ call.rec = NoRecord
    /\ Len(CallAfter) >= 2
    /\ \E i \in 1..Len(call.before) :
         /\ TrimPair(call.before[i]) = TrimPair(call.entry)
         /\ call.before[i].title # OrElse(call.entry.title, <<>>)
         /\ call.before[i].image # call.entry.image

(***************************************************************************)
(* The Global Paginated Index on its own: gi_append_records called with    *)
(* batches of any size up to MaxBatch, the empty batch included.           *)
(***************************************************************************)
\* A batch of k records as convert_full_to_slim makes it.  The records are
\* told apart by their titles, which number the records handed over so far.
Batch(n, k) ==
    convert_full_to_slim(
        [i \in 1..k |-> build_daily_record(Entry(Str(n + i), None))], None)

GiCall(k) ==
    /\ gi.n + k <= MaxIndexed
    /\ fs' = gi_append_records(fs, Batch(gi.n, k), now_local)
    /\ gi' = IF k = 0 THEN gi
             ELSE [n |-> gi.n + k, single |-> gi.single /\ k = 1,
                   batch |-> Batch(gi.n, k)]
    /\ UNCHANGED <<clock, runVars, call, fresh, pending>>

NextGI == \E k \in 0..MaxBatch : GiCall(k)

SpecGI == Init /\ [][NextGI]_vars

\* The Pagination Descriptor and the Index Pages, as gi_append_records reads them
Pagination(f) == gi_load_pagination(f).pag

Page(f, name) == load_json_list(f, Join(GLOBAL_INDEX, name))

PageSizes(f) ==
    [i \in 1..Len(Pagination(f).files) |-> Len(Page(f, Pagination(f).files[i]))]

CeilDiv(n, c) == (n + c - 1) \div c

\* C3: after n >= 1 successive single-item calls on an empty index the
\* descriptor lists ceil(n/C) pages, every page but the last holds C items, the
\* last holds n - C*(ceil(n/C) - 1), and total_articles is n.
C3_Rotation ==
    (gi.single /\ gi.n >= 1)
    => LET sizes == PageSizes(fs)
           k == CeilDiv(gi.n, GLOBAL_PAGE_SIZE)
       IN  /\ Len(sizes) = k
           /\ \A i \in 1..(k - 1) : sizes[i] = GLOBAL_PAGE_SIZE
           /\ sizes[k] = gi.n - GLOBAL_PAGE_SIZE * (k - 1)
           /\ Pagination(fs).total_articles = gi.n

\* C + 1 single-item calls: two pages, of C items and of 1 item.
C3_Witness ==
    /\ gi.single
    /\ gi.n = GLOBAL_PAGE_SIZE + 1
    /\ PageSizes(fs) = <<GLOBAL_PAGE_SIZE, 1>>

\* The Index Page files on disk
PageFiles(f) ==
    {p \in DOMAIN f.files : IsPrefix(Join(GLOBAL_INDEX, <<"index_">>), p)}

LastOf(s) == s[Len(s)]

\* C4: over every step the descriptor's file list before is a prefix of the
\* list after, and every Index Page other than the last listed page after the
\* step existed before it and keeps its contents.
C4_AppendOnly ==
    [][LET before == Pagination(fs).files
           after == Pagination(fs').files
       IN  /\ IsPrefix(before, after)
           /\ \A p \in PageFiles(fs') :
                (after = <<>> \/ p # Join(GLOBAL_INDEX, LastOf(after)))
                => /\ p \in PageFiles(fs)
                   /\ fs'.files[p] = fs.files[p]
           /\ \A i \in 1..(Len(after) - 1) : Page(fs', after[i]) = Page(fs, after[i])
      ]_vars

\* A closed page below a newer page that has received items.
C4_Witness ==
    LET files == Pagination(fs).files
    IN  /\ Len(files) >= 2
        /\ Len(Page(fs, files[1])) >= GLOBAL_PAGE_SIZE
        /\ Len(Page(fs, LastOf(files))) >= 2

\* C10: a call with a non-empty batch stores the whole batch, in order, at the
\* end of one page, the last listed one; a page is added only when there was
\* none or when the last page held at least C items before the call, so at
\* most one page is registered per call; the other pages keep their contents.
C10_NoSplit ==
    [][gi'.n # gi.n =>
        LET before == Pagination(fs).files
            after == Pagination(fs').files
            old == IF before = <<>> THEN <<>> ELSE Page(fs, LastOf(before))
            rotated == before # <<>> /\ Len(old) >= GLOBAL_PAGE_SIZE
        IN  /\ Len(after) = Len(before) + (IF before = <<>> \/ rotated THEN 1 ELSE 0)
            /\ Page(fs', LastOf(after)) = (IF rotated THEN <<>> ELSE old) \o gi'.batch
            /\ \A p \in PageFiles(fs') \ {Join(GLOBAL_INDEX, LastOf(after))} :
                 p \in PageFiles(fs) /\ fs'.files[p] = fs.files[p]
      ]_vars

\* A batch larger than the room left went whole into a page, which ended above
\* capacity.
C10_Witness ==
    /\ Len(gi.batch) >= 2
    /\ Pagination(fs).files # <<>>
    /\ Len(Page(fs, LastOf(Pagination(fs).files))) > GLOBAL_PAGE_SIZE

(***************************************************************************)
(* The Manifest Builder on its own: update_month_manifest applied to a     *)
(* month directory that holds any set of Daily Files and any manifest of   *)
(* an earlier rebuild, or none.                                            *)
(***************************************************************************)
\* The i-th day of the month the directories are drawn from
DayOf(i) == [year |-> 2025, month |-> 1, day |-> 5 * i - 3]

\* A disk whose Daily Files are those of the days S, each with one record
RECURSIVE DiskOfDays(_)
DiskOfDays(S) ==
    IF S = {} THEN EmptyFs
    ELSE LET i == CHOOSE x \in S : TRUE
         IN  save_single_news(DiskOfDays(S \ {i}), Entry(<<"a">>, None), DayOf(i)).fs

InitManifest ==
    /\ \E S \in SUBSET (1..MaxDay) : \E T \in SUBSET (1..MaxDay) :
         \E old \in {"none", "rebuilt", "unparseable"} :
           fs = IF old = "none" THEN DiskOfDays(S)
                ELSE IF old = "unparseable"
                     THEN WriteFile(DiskOfDays(S), Join(month_dir(DayOf(1)), MONTH_MANIFEST),
                                    Unparseable)
                \* the manifest of a rebuild made when the days T were there
                ELSE WriteFile(DiskOfDays(S), Join(month_dir(DayOf(1)), MONTH_MANIFEST),
                               update_month_manifest(DiskOfDays(T), DayOf(1))
                                   .files[Join(month_dir(DayOf(1)), MONTH_MANIFEST)])
    /\ clock = 1
    /\ pc = "idle"
    /\ latest = NoEntry
    /\ rec = NoRecord
    /\ day_path = None
    /\ obs = NoObs
    /\ call = NoCall
    /\ gi = NoGi
    /\ fresh = {}
    /\ pending = NoPending

Rebuild(i) ==
    /\ fs' = update_month_manifest(fs, DayOf(i))
    /\ fresh' = {month_dir(DayOf(i))}
    /\ UNCHANGED <<clock, runVars, call, gi, pending>>

NextManifest == \E i \in 1..MaxDay : Rebuild(i)

SpecManifest == InitManifest /\ [][NextManifest]_vars

\* The Daily Files present in a month directory
DailyFilesIn(f, dir) ==
    {p \in DOMAIN f.files :
        Parent(p) = dir /\ IsSuffix(JSON_SUFFIX, Name(p)) /\ Name(p) # MONTH_MANIFEST}

\* C9: a rebuilt month manifest lists exactly the day keys of the Daily Files
\* present in the directory (the manifest itself left out), each with the path
\* of that day's file, in strictly descending order of the keys.
C9_Manifest ==
    \A dir \in fresh :
        LET path == Join(dir, MONTH_MANIFEST)
            present == DailyFilesIn(fs, dir)
        IN  /\ Exists(fs, path)
            /\ fs.files[path].kind = "dict"
            /\ LET days == fs.files[path].data.days
               IN  /\ {days[i].key : i \in 1..Len(days)}
                        = {SplitFirst(Stem(Name(p))) : p \in present}
                   /\ \A i \in 1..Len(days) :
                        /\ days[i].path \in present
                        /\ SplitFirst(Stem(Name(days[i].path))) = days[i].key
                   /\ \A i, j \in 1..Len(days) :
                        i < j => StrLess(days[j].key, days[i].key)

\* A rebuilt manifest of three days or more.
C9_Witness ==
    \E dir \in fresh :
        /\ Cardinality(DailyFilesIn(fs, dir)) >= 3
        /\ Len(fs.files[Join(dir, MONTH_MANIFEST)].data.days) >= 3

(***************************************************************************)
(* run(): one step per statement that touches the disk or an external      *)
(* service.                                                                *)
(***************************************************************************)
\* Lines 555-559: a run begins; without the Telegram settings it ends at once.
RunStart ==
    /\ pc = "idle"
    /\ \E configured \in BOOLEAN :
         IF configured
         THEN /\ pc' = "news"
              /\ obs' = [NoObs EXCEPT !.ended = "running", !.tries = obs.tries]
         ELSE /\ pc' = "idle"
              /\ obs' = [NoObs EXCEPT !.ended = "fatal", !.tries = obs.tries]
    /\ UNCHANGED <<fs, clock, latest, rec, day_path, call, gi, fresh, pending>>

\* Lines 562-569: the feed is fetched and the latest item compared with the
\* news marker.
NewsFetch ==
    /\ pc = "news"
    /\ \E feed \in NewsFeed :
         LET e == feed.entry
         IN
         IF feed.raised
         THEN /\ pc' = "idle"
              /\ obs' = [obs EXCEPT !.news = "raised", !.ended = "raised"]
              /\ UNCHANGED <<latest, pending>>
         ELSE IF e = NoEntry
         THEN /\ pc' = "video"
              /\ obs' = [obs EXCEPT !.news = "empty", !.tries = 0]
              /\ pending' = NoPending
              /\ UNCHANGED latest
         ELSE LET fp == get_entry_identity(e)
                  last_fp == read_text_file(fs, CRUNCHYROLL_LAST_FP_FILE)
                  tries == IF e # latest THEN 1
                           ELSE IF obs.tries < 3 THEN obs.tries + 1 ELSE 3
              IN  /\ latest' = e
                  /\ pending' = IF pending.entry = e THEN pending ELSE NoPending
                  /\ IF already_processed(last_fp, fp)
                     THEN /\ pc' = "video"
                          /\ obs' = [obs EXCEPT !.news = "skip", !.marker = last_fp,
                                                !.tries = tries]
                     ELSE /\ pc' = "save"
                          /\ obs' = [obs EXCEPT !.news = "fetched", !.marker = last_fp,
                                                !.tries = tries]
    /\ UNCHANGED <<fs, clock, rec, day_path, call, gi, fresh>>

\* Line 571
NewsSave ==
    /\ pc = "save"
    /\ LET r == save_single_news(fs, latest, now_local)
       IN  /\ fs' = r.fs
           /\ rec' = r.rec
           /\ day_path' = r.path
           /\ IF r.rec = NoRecord
              THEN /\ pc' = "mark_dup"
                   /\ obs' = [obs EXCEPT !.news = "dup"]
                   /\ UNCHANGED fresh
              ELSE /\ pc' = "send"
                   /\ obs' = [obs EXCEPT !.news = "new"]
                   /\ fresh' = fresh \ {Parent(r.path)}
    /\ UNCHANGED <<clock, latest, call, gi, pending>>

\* Line 575
NewsSend ==
    /\ pc = "send"
    /\ \E o \in SendOutcomes :
         LET sent == send_crunchyroll_one(latest, o)
         IN  IF sent = "raise"
             THEN /\ pc' = "idle"
                  /\ obs' = [obs EXCEPT !.ended = "raised"]
                  /\ UNCHANGED pending
             ELSE /\ pc' = "upload"
                  /\ obs' = [obs EXCEPT !.sends = @ + 1]
                  /\ pending' = IF pending.entry = latest
                                THEN [pending EXCEPT !.resent = @ + 1]
                                ELSE pending
    /\ UNCHANGED <<fs, clock, latest, rec, day_path, call, gi, fresh>>

\* Lines 578-590
NewsUpload ==
    /\ pc = "upload"
    /\ \E o \in UploadOutcomes :
         LET up == upload_step(rec, o)
         IN  IF up = "raise"
             THEN /\ pc' = "idle"
                  /\ obs' = [obs EXCEPT !.ended = "raised"]
             ELSE /\ pc' = "manifests"
                  /\ obs' = [obs EXCEPT !.uploads = @ + (IF up = "ok" THEN 1 ELSE 0)]
    /\ UNCHANGED <<fs, clock, latest, rec, day_path, call, gi, fresh, pending>>

\* Lines 593-595
NewsManifests ==
    /\ pc = "manifests"
    /\ LET today == now_local
       IN  /\ fs' = update_year_manifest(update_month_manifest(fs, today), today)
           /\ fresh' = fresh \cup {month_dir(today)}
    /\ pc' = "index"
    /\ obs' = [obs EXCEPT !.done = @ \cup {"manifests"}]
    /\ UNCHANGED <<clock, latest, rec, day_path, call, gi, pending>>

\* Lines 597-598
NewsIndex ==
    /\ pc = "index"
    /\ fs' = gi_append_records(fs, convert_full_to_slim(<<rec>>, day_path), now_local)
    /\ pc' = "mark"
    /\ obs' = [obs EXCEPT !.done = @ \cup {"index"}]
    /\ UNCHANGED <<clock, latest, rec, day_path, call, gi, fresh, pending>>

\* Line 600
NewsMark ==
    /\ pc = "mark"
    /\ fs' = write_text_file(fs, CRUNCHYROLL_LAST_FP_FILE, get_entry_identity(latest))
    /\ pc' = "video"
    /\ obs' = [obs EXCEPT !.done = @ \cup {"mark"}]
    /\ UNCHANGED <<clock, latest, rec, day_path, call, gi, fresh, pending>>

\* Line 604
NewsMarkDup ==
    /\ pc = "mark_dup"
    /\ fs' = write_text_file(fs, CRUNCHYROLL_LAST_FP_FILE, get_entry_identity(latest))
    /\ pc' = "video"
    /\ obs' = [obs EXCEPT !.done = @ \cup {"mark"}]
    /\ UNCHANGED <<clock, latest, rec, day_path, call, gi, fresh, pending>>

\* Line 610: send_youtube_latest_if_new, lines 513-548
Video ==
    /\ pc = "video"
    /\ \E feed \in VideoFeed : \E send \in {"ok", "fail"} :
         LET last_vid == read_text_file(fs, YOUTUBE_LAST_ID_FILE)
             vid == feed.vid
         IN  IF feed.raised
             THEN /\ obs' = [obs EXCEPT !.video = "raised", !.ended = "raised"]
                  /\ UNCHANGED fs
             ELSE IF vid = None   \* no entries
             THEN /\ obs' = [obs EXCEPT !.video = "empty", !.ended = "completed",
                                        !.done = @ \cup {"video"}]
                  /\ UNCHANGED fs
             ELSE IF Truthy(last_vid) /\ Truthy(vid) /\ vid = last_vid
             THEN /\ obs' = [obs EXCEPT !.video = "skip", !.vid = vid,
                                        !.ended = "completed", !.done = @ \cup {"video"}]
                  /\ UNCHANGED fs
             ELSE IF send = "fail"
             THEN /\ obs' = [obs EXCEPT !.video = "failed", !.vid = vid,
                                        !.ended = "completed", !.done = @ \cup {"video"}]
                  /\ UNCHANGED fs
             ELSE /\ obs' = [obs EXCEPT !.video = "sent", !.vid = vid,
                                        !.ended = "completed", !.done = @ \cup {"video"}]
                  /\ fs' = write_text_file(fs, YOUTUBE_LAST_ID_FILE, vid)
    /\ pc' = "idle"
    /\ UNCHANGED <<clock, latest, rec, day_path, call, gi, fresh, pending>>

Next ==
    \/ Tick
    \/ RunStart
    \/ NewsFetch
    \/ NewsSave
    \/ NewsSend
    \/ NewsUpload
    \/ NewsManifests
    \/ NewsIndex
    \/ NewsMark
    \/ NewsMarkDup
    \/ Video

Spec == Init /\ [][Next]_vars

(***************************************************************************)
(* The same, with the process killed at any point of a run.                *)
(***************************************************************************)
Crash ==
    /\ pc # "idle"
    /\ pc' = "idle"
    /\ obs' = [obs EXCEPT !.ended = "killed"]
    /\ pending' = IF pc \in {"send", "upload", "manifests", "index", "mark"}
                  THEN [entry |-> latest, path |-> day_path, resent |-> 0]
                  ELSE pending
    /\ UNCHANGED <<fs, clock, latest, rec, day_path, call, gi, fresh>>

NextCrash == Next \/ Crash

SpecCrash == Init /\ [][NextCrash]_vars

\* The files of the news source: all but the video marker
NewsFiles(f) == [p \in DOMAIN f.files \ {YOUTUBE_LAST_ID_FILE} |-> f.files[p]]

NewsMarker == read_text_file(fs, CRUNCHYROLL_LAST_FP_FILE)

VideoMarker == read_text_file(fs, YOUTUBE_LAST_ID_FILE)

\* C5: in a run whose latest news item has the identity the news marker
\* holds, no step changes a file of the news source (Daily Files, manifests,
\* index pages, pagination, stats, news marker) and nothing is sent or
\* uploaded for the news source; and a completed run that had a latest item
\* leaves the marker equal to its identity, so that the next run over the same
\* item is such a run.
C5_ShortCircuit ==
    /\ [][(/\ obs'.news \notin {"none", "empty"}
           /\ obs'.marker = get_entry_identity(latest'))
          => /\ NewsFiles(fs') = NewsFiles(fs)
             /\ obs'.sends = 0
             /\ obs'.uploads = 0
             /\ pc' \in {"video", "idle"}
         ]_vars
    /\ []((pc = "idle" /\ obs.ended = "completed" /\ obs.news \in {"skip", "dup", "new"})
            => NewsMarker = get_entry_identity(latest))

\* A completed run that took the skip path, over a disk that holds the item.
C5_Witness ==
    /\ pc = "idle"
    /\ obs.ended = "completed"
    /\ obs.news = "skip"
    /\ obs.marker = get_entry_identity(latest)
    /\ DailyFiles # {}
    /\ Pagination(fs).total_articles >= 1

\* C6: after a run in which a source had a latest item that was newly
\* processed or found stored already, that source's marker equals the item's
\* identity, whether the sends and the upload of the run succeeded or failed.
C6_Marker ==
    (pc = "idle" /\ obs.ended \in {"completed", "raised"})
    => /\ obs.news \in {"new", "dup"} => NewsMarker = get_entry_identity(latest)
       /\ obs.video \in {"sent", "failed"} => VideoMarker = obs.vid

\* C7: a run that stored a new record goes on, whatever fails in the send, the
\* image processing or the upload, to rebuild the manifests, append the Slim
\* Record, write the news marker and process the video source.
C7_BestEffort ==
    (pc = "idle" /\ obs.news = "new" /\ obs.ended # "killed")
    => /\ obs.ended = "completed"
       /\ {"manifests", "index", "mark", "video"} \subseteq obs.done

\* All Slim Records of the listed Index Pages
RECURSIVE Flatten(_)
Flatten(ss) == IF ss = <<>> THEN <<>> ELSE Head(ss) \o Flatten(Tail(ss))

AllSlims(f) ==
    Flatten([i \in 1..Len(Pagination(f).files) |-> Page(f, Pagination(f).files[i])])

\* The days a month manifest lists, as <<key, path>> entries
ManifestEntries(f, path, field) ==
    IF Exists(f, path) /\ f.files[path].kind = "dict"
    THEN {f.files[path].data[field][i] : i \in 1..Len(f.files[path].data[field])}
    ELSE {}

\* C8: when a run was killed after the Daily Record of its item was appended
\* and before the news marker was written, a later completed run over the same
\* item leaves the record in its Daily File, exactly one Slim Record for it in
\* the index, manifests that list its day and its month, and the marker equal
\* to its identity; the notification was sent again at most once.
C8_Recovery ==
    (/\ pc = "idle"
     /\ obs.ended = "completed"
     /\ obs.news \in {"skip", "dup", "new"}
     /\ pending.entry # NoEntry
     /\ pending.entry = latest)
    => LET r == build_daily_record(pending.entry)
           stored == load_json_list(fs, pending.path)
           slims == AllSlims(fs)
           mdir == Parent(pending.path)
       IN  /\ \E i \in 1..Len(stored) : stored[i] = r
           /\ Cardinality({i \in 1..Len(slims) :
                   /\ slims[i].title = r.title
                   /\ slims[i].image = r.image
                   /\ IsPrefix(pending.path \o <<"#">>, slims[i].path)}) = 1
           /\ [key |-> day_key(pending.path), path |-> pending.path]
                  \in ManifestEntries(fs, Join(mdir, MONTH_MANIFEST), "days")
           /\ [key |-> Name(mdir), path |-> Join(mdir, MONTH_MANIFEST)]
                  \in ManifestEntries(fs, Join(Parent(mdir), YEAR_MANIFEST), "months")
           /\ NewsMarker = get_entry_identity(latest)
           /\ pending.resent <= 1

\* C11: every Slim Record of the index carries a path '<daily file>#<i>', and
\* the record at index i of that Daily File has the Slim Record's title and
\* image, however many records the Daily File held before.
C11_BackReference ==
    \A k \in 1..Len(AllSlims(fs)) :
        LET s == AllSlims(fs)[k]
        IN  \E p \in DailyFiles :
                \E i \in 0..(Len(fs.files[p].data) - 1) :
                    /\ s.path = p \o <<"#">> \o Str(i)
                    /\ fs.files[p].data[i + 1].title = s.title
                    /\ fs.files[p].data[i + 1].image = s.image

\* C12: a step in which the news feed raises or has no entries leaves the
\* files of the news source alone, sends nothing, and the run goes on to the
\* video source; a step in which the video feed raises or has no entries
\* leaves every file alone and completes the run: no exception surfaces.
C12_EmptyOrFailingFeed ==
    [][/\ (obs'.news \in {"empty", "raised"})
            => /\ NewsFiles(fs') = NewsFiles(fs)
               /\ obs'.sends = 0
               /\ obs.news = "none" => pc' = "video"
       /\ (obs'.video \in {"empty", "raised"})
            => /\ fs' = fs
               /\ obs.video = "none" => (pc' = "idle" /\ obs'.ended = "completed")
      ]_vars

\* C13: the news marker file changes only in the marker step of a run, and
\* that step comes after the run's save_single_news call for the latest item:
\* it writes the item's identity X, and the Daily File the call used already
\* holds a record whose dedup key is X.
C13_AppendBeforeMarker ==
    [][LET X == get_entry_identity(latest)
           marked == "mark" \in obs'.done /\ "mark" \notin obs.done
           stored == load_json_list(fs, day_path)
       IN  /\ (\/ Exists(fs', CRUNCHYROLL_LAST_FP_FILE) # Exists(fs, CRUNCHYROLL_LAST_FP_FILE)
               \/ /\ Exists(fs, CRUNCHYROLL_LAST_FP_FILE)
                  /\ fs'.files[CRUNCHYROLL_LAST_FP_FILE] # fs.files[CRUNCHYROLL_LAST_FP_FILE])
              => marked
           /\ marked
              => /\ obs.news \in {"new", "dup"}
                 /\ latest' = latest
                 /\ fs'.files[CRUNCHYROLL_LAST_FP_FILE] = Text(X \o <<NEWLINE>>)
                 /\ \E i \in 1..Len(stored) : RecordFp(stored[i]) = X
      ]_vars

\* The marker written on the duplicate path, for the second record of a day.
C13_Witness ==
    /\ pc = "video"
    /\ "mark" \in obs.done
    /\ obs.news = "dup"
    /\ NewsMarker = get_entry_identity(latest)
    /\ Len(load_json_list(fs, day_path)) >= 2
    /\ RecordFp(LastOf(load_json_list(fs, day_path))) = get_entry_identity(latest)

RECURSIVE SumSeq(_)
SumSeq(ns) == IF ns = <<>> THEN 0 ELSE Head(ns) + SumSeq(Tail(ns))

\* The Stats Snapshot on disk
Stats(f) == f.files[STATS_FILE].data

\* C14: after any sequence of gi_append_records calls on an empty index,
\* pagination.total_articles is the sum of the item counts of the listed
\* pages; once a non-empty batch was appended, stats.total_articles equals
\* pagination.total_articles and stats.added_today is the size of the most
\* recent non-empty batch.
C14_Counts ==
    /\ Pagination(fs).total_articles = SumSeq(PageSizes(fs))
    /\ gi.n >= 1
       => /\ Exists(fs, STATS_FILE)
          /\ Stats(fs).total_articles = Pagination(fs).total_articles
          /\ Stats(fs).added_today = Len(gi.batch)
    /\ gi.n = 0 => ~Exists(fs, STATS_FILE)

\* Two pages, the last batch of three records.
C14_Witness ==
    /\ Len(PageSizes(fs)) >= 2
    /\ Len(gi.batch) = 3
    /\ Exists(fs, STATS_FILE)
    /\ Stats(fs).added_today = 3
    /\ Stats(fs).total_articles > GLOBAL_PAGE_SIZE

\* C15: the k-th name of pagination.files is 'index_<k>.json' in every state,
\* and a step that adds a page adds one page, named with the length of the
\* list before the step plus one.
C15_Numbering ==
    /\ [](\A k \in 1..Len(Pagination(fs).files) : Pagination(fs).files[k] = PageName(k))
    /\ [][LET before == Pagination(fs).files
               after == Pagination(fs').files
           IN  Len(after) > Len(before)
               => after = Append(before, PageName(Len(before) + 1))
          ]_vars

\* Three pages listed.
C15_Witness ==
    Pagination(fs).files = <<PageName(1), PageName(2), PageName(3)>>

\* C16: at the end of every completed run, whatever dates the run's clock
\* reads returned, the Daily Files on disk are listed in the manifests; in
\* particular the Daily File the run appended to is listed under its day in
\* the month manifest of its own directory, and that directory is listed in
\* the manifest of its year.
C16_NoDrift ==
    (pc = "idle" /\ obs.ended = "completed" /\ obs.news = "new")
    => /\ [key |-> day_key(day_path), path |-> day_path]
            \in ManifestEntries(fs, Join(Parent(day_path), MONTH_MANIFEST), "days")
       /\ [key |-> Name(Parent(day_path)), path |-> Join(Parent(day_path), MONTH_MANIFEST)]
            \in ManifestEntries(fs, Join(Parent(Parent(day_path)), YEAR_MANIFEST), "months")

\* C17: when two runs in a row have reached the news step with the same
\* latest item and ended, the news marker equals the item's identity; and
\* every run after them over the same item takes the skip path and sends
\* nothing for the news source.
C17_NoReprocessing ==
    /\ (pc = "idle" /\ obs.ended \in {"completed", "raised"} /\ obs.tries >= 2)
       => NewsMarker = get_entry_identity(latest)
    /\ (obs.tries >= 3 /\ obs.news \in {"skip", "fetched", "dup", "new"})
       => (obs.news = "skip" /\ obs.sends = 0)

(***************************************************************************)
(* The Global Paginated Index with malformed state: between the calls of   *)
(* gi_append_records, pagination.json or an Index Page may become          *)
(* unparseable (a torn write, an edit by hand).  The index stays small:    *)
(* at most MaxSmallIndex records are handed over.                          *)
(***************************************************************************)
\* pagination.json and the Index Pages on disk
IndexFiles(f) == {p \in DOMAIN f.files : Parent(p) = GLOBAL_INDEX} \ {STATS_FILE}

\* json.load of the file raises from now on
Damage(p) ==
    /\ fs.files[p] # Unparseable
    /\ fs' = WriteFile(fs, p, Unparseable)
    /\ UNCHANGED <<clock, runVars, call, gi, fresh, pending>>

GiCallSmall(k) == gi.n + k <= MaxSmallIndex /\ GiCall(k)

NextMalformed ==
    \/ \E k \in 0..MaxBatch : GiCallSmall(k)
    \/ \E p \in IndexFiles(fs) : Damage(p)

SpecMalformed == Init /\ [][NextMalformed]_vars

\* gi_append_records will find pagination.json or the current page unparseable
Malformed(f) ==
    \/ Exists(f, PAGINATION_FILE) /\ f.files[PAGINATION_FILE] = Unparseable
    \/ /\ Pagination(f).files # <<>>
       /\ Exists(f, Join(GLOBAL_INDEX, LastOf(Pagination(f).files)))
       /\ f.files[Join(GLOBAL_INDEX, LastOf(Pagination(f).files))] = Unparseable

\* C18: a call of gi_append_records that finds pagination.json or the current
\* Index Page unparseable completes, and every Slim Record that a parseable
\* Index Page file held before the call is still in that file, at its place,
\* after it.
C18_MalformedKeepsData ==
    [][(gi'.n # gi.n /\ Malformed(fs))
        => \A p \in PageFiles(fs) :
              fs.files[p].kind = "list"
              => IsPrefix(fs.files[p].data, load_json_list(fs', p))
      ]_vars

\* C19: save_single_news returns the duplicate outcome only if a record of
\* today's Daily File has the candidate's trimmed title and trimmed image; a
\* candidate whose trimmed pair is that of no stored record is appended,
\* also when the strings contain the separator.
C19_OnlyTrueDuplicates ==
    call.nth > 0
    => /\ call.rec = NoRecord => CountPair(call.before, call.entry) > 0
       /\ CountPair(call.before, call.entry) = 0
          => /\ call.rec = build_daily_record(call.entry)
             /\ CallAfter = Append(call.before, call.rec)

\* The id of the video whose notification was last sent and recorded: what
\* the marker file holds, the empty id included (None before any was sent)
LastSentVideo(f) ==
    IF Exists(f, YOUTUBE_LAST_ID_FILE) THEN strip(f.files[YOUTUBE_LAST_ID_FILE].data)
    ELSE None

\* C20: once the notification of a video was sent and its marker written, a
\* run in which the feed's latest video is that video sends nothing and
\* writes nothing, whatever the id (the empty id of an entry without a native
\* id included); and a run whose send fails leaves the video marker as it was.
C20_VideoAtMostOnce ==
    [][(obs.video = "none" /\ obs'.video \in {"skip", "failed", "sent"})
        => /\ obs'.vid = LastSentVideo(fs) => (obs'.video = "skip" /\ fs' = fs)
           /\ obs'.video = "failed" => fs' = fs
      ]_vars

====
